---------------------------- MODULE Spec2Model ----------------------------
(***************************************************************************)
(* A model of the DealDish marketplace backend (src/server.py): the five   *)
(* MongoDB collections and the request handlers that read and write them.  *)
(*                                                                         *)
(* Every handler is a coroutine that gives up control at each `await` of a *)
(* store operation, and the gateway takes no lock, so handlers interleave  *)
(* at store operations.  One action is one store operation together with   *)
(* the local code that follows it up to the next await (or the response).  *)
(*                                                                         *)
(* Units.  Time is counted in hours (datetime.utcnow() is `now`).  Money   *)
(* is counted in whole dollars; a rate is counted in percent points, so a  *)
(* commission amount (total * rate) is in cents.  uuid.uuid4() is a fresh  *)
(* token: the next value of a counter.  Floating point is modelled by      *)
(* exact arithmetic.                                                       *)
(***************************************************************************)
EXTENDS Integers, Sequences, FiniteSets, TLC

VARIABLES
    users,          \* db.users
    subscriptions,  \* db.subscriptions
    restaurants,    \* db.restaurants
    food_items,     \* db.food_items
    orders,         \* db.orders
    now,            \* datetime.utcnow(), in hours
    pc,             \* per request slot: the await the handler is suspended at
    loc,            \* per request slot: the handler's local variables
    resp,           \* the HTTP response sent by the last step, if it sent one
    nextId          \* the next uuid4 token

vars == <<users, subscriptions, restaurants, food_items, orders,
          now, pc, loc, resp, nextId>>

authVars == <<users, subscriptions>>
catalogVars == <<restaurants, food_items, orders>>

(***************************************************************************)
(* Bounds of the model.                                                    *)
(***************************************************************************)
\* number of uuid4 tokens drawn in one behaviour
MaxId == 3
\* the clock is observed at hours 0..MaxEarly and around the end of a trial
MaxEarly == 0

\* request slots: handlers that may be in flight at once
Procs == {1, 2}

(***************************************************************************)
(* Enums and model defaults.                                               *)
(***************************************************************************)
UserType == {"customer", "restaurant"}
SubscriptionStatus == {"trial", "active", "expired", "cancelled"}

\* Optional[datetime] = None: no instant (instants are >= 0)
None == -1

\* timedelta(days=30), in hours
TrialPeriod == 30 * 24

NoLoc == [k |-> "none"]
NoResp == [handler |-> "none", code |-> 0]

\* the instants at which the clock is observed
Instants ==
    (0 .. MaxEarly) \cup { TrialPeriod - 1 + k : k \in 0 .. (MaxEarly + 2) }

(***************************************************************************)
(* Field validators of User.  A string is a sequence of characters.        *)
(***************************************************************************)
Digits == {"0", "1", "2", "3", "4", "5", "6", "7", "8", "9"}
Letters ==
    {"a", "b", "c", "d", "e", "f", "g", "h", "i", "j", "k", "l", "m",
     "n", "o", "p", "q", "r", "s", "t", "u", "v", "w", "x", "y", "z",
     "A", "B", "C", "D", "E", "F", "G", "H", "I", "J", "K", "L", "M",
     "N", "O", "P", "Q", "R", "S", "T", "U", "V", "W", "X", "Y", "Z"}

\* ^(\+61|0)[4-5]\d{8}$
validate_mobile_number(v) ==
    \E k \in {1, 3} :
        /\ SubSeq(v, 1, k) \in {<<"0">>, <<"+", "6", "1">>}
        /\ Len(v) = k + 9
        /\ v[k + 1] \in {"4", "5"}
        /\ \A i \in (k + 2) .. (k + 9) : v[i] \in Digits

\* ^[a-zA-Z0-9._%+-]+@[a-zA-Z0-9.-]+\.[a-zA-Z]{2,}$
validate_email(v) ==
    \E i \in 2 .. Len(v) : \E j \in (i + 2) .. Len(v) :
        /\ v[i] = "@"
        /\ v[j] = "."
        /\ Len(v) - j >= 2
        /\ \A k \in 1 .. (i - 1) :
              v[k] \in Letters \cup Digits \cup {".", "_", "%", "+", "-"}
        /\ \A k \in (i + 1) .. (j - 1) :
              v[k] \in Letters \cup Digits \cup {".", "-"}
        /\ \A k \in (j + 1) .. Len(v) : v[k] \in Letters

(***************************************************************************)
(* Request payloads the model draws from.                                  *)
(***************************************************************************)
E1 == <<"a", "@", "b", ".", "c", "o">>
E2 == <<"c", "@", "d", ".", "a", "u">>
\* no top-level domain: validate_email rejects it
EBad == <<"a", "@", "b">>
M1 == <<"0", "4", "1", "2", "3", "4", "5", "6", "7", "8">>
M2 == <<"+", "6", "1", "5", "1", "2", "3", "4", "5", "6", "7", "8">>
\* a landline prefix: validate_mobile_number rejects it
MBad == <<"0", "3", "1", "2", "3", "4", "5", "6", "7", "8">>

\* the emails login is tried with
Emails == {E1, E2}

UserCreate ==
    { [email |-> E1, mobile_number |-> M1, user_type |-> "customer"],
      [email |-> E1, mobile_number |-> M2, user_type |-> "restaurant"],
      [email |-> E2, mobile_number |-> M1, user_type |-> "customer"],
      [email |-> EBad, mobile_number |-> M2, user_type |-> "customer"],
      [email |-> E2, mobile_number |-> MBad, user_type |-> "restaurant"] }

(***************************************************************************)
(* Helper functions.                                                       *)
(***************************************************************************)
\* is_trial_period_active with <= for <: the trial would still count as
\* active at the instant it ends
is_trial_period_active_inclusive(user, t) ==
    IF user.trial_end_date # None THEN t <= user.trial_end_date ELSE FALSE

\* is_trial_period_active(user), evaluated at time t
is_trial_period_active(user, t) ==
    IF user.trial_end_date # None THEN t < user.trial_end_date ELSE FALSE

\* collection.find_one({field: value}): the documents it may return
find_one(coll, field, value) == { d \in coll : d[field] = value }

\* collection.update_one({"id": id}, {"$set": {field: value}})
update_one(coll, id, field, value) ==
    IF find_one(coll, "id", id) = {} THEN coll
    ELSE LET d == CHOOSE x \in find_one(coll, "id", id) : TRUE
         IN  (coll \ {d}) \cup {[d EXCEPT ![field] = value]}

(***************************************************************************)
(* Requests and responses.                                                 *)
(***************************************************************************)
\* raise HTTPException(status_code=..., detail=...)
HTTPException(handler, status_code, detail) ==
    [handler |-> handler, code |-> status_code, detail |-> detail]
\* a returned value: FastAPI answers 200 with it as the body
Ok(handler, body) == [handler |-> handler, code |-> 200, body |-> body]
\* an exception the handler does not catch: FastAPI answers 500
ServerError(handler, exc) == [handler |-> handler, code |-> 500, exc |-> exc]

\* Slot p takes the next request.  The slots are interchangeable, so the
\* request goes to the first free one.
Idle(p) ==
    /\ pc[p] = "idle"
    /\ \A q \in Procs : pc[q] = "idle" => p <= q

Finish(p, r) ==
    /\ pc' = [pc EXCEPT ![p] = "idle"]
    /\ loc' = [loc EXCEPT ![p] = NoLoc]
    /\ resp' = r

Await(p, at, locals) ==
    /\ pc' = [pc EXCEPT ![p] = at]
    /\ loc' = [loc EXCEPT ![p] = locals]
    /\ resp' = NoResp

\* the handler each await belongs to
HandlerOf(at) ==
    CASE at \in {"reg_find_email", "reg_find_mobile", "reg_insert_user",
                 "reg_insert_subscription"} -> "register_user"
      [] at \in {"login_find", "login_update"} -> "login_user"
      [] at = "restaurant_insert" -> "create_restaurant"
      [] at = "food_insert" -> "create_food_item"
      [] at \in {"order_find", "order_insert"} -> "create_order"
      [] at = "waste_count" -> "get_food_waste_saved"
      [] OTHER -> "populate_demo_data"

\* uuid4 tokens the handler in slot q has still to draw
IdsOwed(q) ==
    CASE pc[q] \in {"reg_find_email", "reg_find_mobile"} ->
            IF loc[q].user.user_type = "customer" THEN 2 ELSE 1
      [] pc[q] = "reg_insert_user" ->
            IF loc[q].user.user_type = "customer" THEN 1 ELSE 0
      [] pc[q] \in {"order_find", "pop_delete_restaurants", "pop_delete_food"} -> 1
      [] OTHER -> 0

RECURSIVE SumOwed(_)
SumOwed(S) ==
    IF S = {} THEN 0
    ELSE LET q == CHOOSE x \in S : TRUE IN IdsOwed(q) + SumOwed(S \ {q})

\* a handler that draws up to n tokens is admitted only within the bound
CanDraw(n) == nextId + SumOwed(Procs) + n <= MaxId + 1

(***************************************************************************)
(* POST /api/auth/register                                                 *)
(***************************************************************************)
\* User(**user.dict()) with the subscription fields register_user sets
NewUser(user, id, t) ==
    [ id |-> id,
      email |-> user.email,
      mobile_number |-> user.mobile_number,
      user_type |-> user.user_type,
      created_at |-> t,
      subscription_status |->
          IF user.user_type = "customer" THEN "trial" ELSE "active",
      trial_end_date |->
          IF user.user_type = "customer" THEN t + TrialPeriod ELSE None ]

\* Subscription(user_id=..., status=trial, trial_end_date=...)
NewSubscription(user_obj, id) ==
    [ id |-> id,
      user_id |-> user_obj.id,
      status |-> "trial",
      trial_end_date |-> user_obj.trial_end_date ]

\* the request arrives
RegisterCall(p, user) ==
    /\ Idle(p)
    /\ CanDraw(IF user.user_type = "customer" THEN 2 ELSE 1)
    /\ Await(p, "reg_find_email", [user |-> user])
    /\ UNCHANGED <<authVars, catalogVars, now, nextId>>

\* RegisterFindEmail without its `if existing_user: raise`
RegisterFindEmailNoRaise(p) ==
    /\ pc[p] = "reg_find_email"
    /\ Await(p, "reg_find_mobile", loc[p])
    /\ UNCHANGED <<authVars, catalogVars, now, nextId>>

\* the lookup by email, and the raise that follows a hit
RegisterFindEmail(p) ==
    /\ pc[p] = "reg_find_email"
    /\ IF find_one(users, "email", loc[p].user.email) # {}
       THEN Finish(p, HTTPException("register_user", 400,
                        "User with this email already exists"))
       ELSE Await(p, "reg_find_mobile", loc[p])
    /\ UNCHANGED <<authVars, catalogVars, now, nextId>>

\* the lookup by mobile number, the raise that follows a hit, and the
\* construction of user_obj (the validators run there)
RegisterFindMobile(p) ==
    /\ pc[p] = "reg_find_mobile"
    /\ LET user == loc[p].user
       IN  IF find_one(users, "mobile_number", user.mobile_number) # {}
           THEN /\ Finish(p, HTTPException("register_user", 400,
                        "User with this mobile number already exists"))
                /\ UNCHANGED nextId
           ELSE IF ~ (validate_email(user.email)
                      /\ validate_mobile_number(user.mobile_number))
           THEN /\ Finish(p, ServerError("register_user", "ValidationError"))
                /\ UNCHANGED nextId
           ELSE /\ Await(p, "reg_insert_user",
                         [user |-> user, user_obj |-> NewUser(user, nextId, now)])
                /\ nextId' = nextId + 1
    /\ UNCHANGED <<authVars, catalogVars, now>>

\* db.users.insert_one, then the subscription is built for a customer
RegisterInsertUser(p) ==
    /\ pc[p] = "reg_insert_user"
    /\ users' = users \cup {loc[p].user_obj}
    /\ IF loc[p].user.user_type = "customer"
       THEN /\ Await(p, "reg_insert_subscription",
                     [user |-> loc[p].user,
                      user_obj |-> loc[p].user_obj,
                      subscription |-> NewSubscription(loc[p].user_obj, nextId)])
            /\ nextId' = nextId + 1
       ELSE /\ Finish(p, Ok("register_user", loc[p].user_obj))
            /\ UNCHANGED nextId
    /\ UNCHANGED <<subscriptions, catalogVars, now>>

\* db.subscriptions.insert_one, then the response
RegisterInsertSubscription(p) ==
    /\ pc[p] = "reg_insert_subscription"
    /\ subscriptions' = subscriptions \cup {loc[p].subscription}
    /\ Finish(p, Ok("register_user", loc[p].user_obj))
    /\ UNCHANGED <<users, catalogVars, now, nextId>>

(***************************************************************************)
(* POST /api/auth/login                                                    *)
(***************************************************************************)
\* the three nested conditions of login_user: the trial of user_obj has run
\* out and the stored status still says trial
TrialExpired(user_obj, t) ==
    /\ user_obj.user_type = "customer"
    /\ user_obj.trial_end_date # None
    /\ ~ is_trial_period_active(user_obj, t)
    /\ user_obj.subscription_status = "trial"

LoginResponse(user_obj) ==
    Ok("login_user", [user |-> user_obj, token |-> "demo-token"])

\* the request arrives
LoginCall(p, email) ==
    /\ Idle(p)
    /\ Await(p, "login_find", [email |-> email])
    /\ UNCHANGED <<authVars, catalogVars, now, nextId>>

\* the lookup by email and the expiry check
LoginFind(p) ==
    /\ pc[p] = "login_find"
    /\ IF find_one(users, "email", loc[p].email) = {}
       THEN Finish(p, HTTPException("login_user", 401, "Invalid credentials"))
       ELSE \E user_obj \in find_one(users, "email", loc[p].email) :
               IF TrialExpired(user_obj, now)
               THEN Await(p, "login_update",
                          [email |-> loc[p].email, user_obj |-> user_obj])
               ELSE Finish(p, LoginResponse(user_obj))
    /\ UNCHANGED <<authVars, catalogVars, now, nextId>>

\* db.users.update_one, then the response
LoginUpdate(p) ==
    /\ pc[p] = "login_update"
    /\ users' = update_one(users, loc[p].user_obj.id,
                           "subscription_status", "expired")
    /\ Finish(p, LoginResponse(
                    [loc[p].user_obj EXCEPT !.subscription_status = "expired"]))
    /\ UNCHANGED <<subscriptions, catalogVars, now, nextId>>

(***************************************************************************)
(* POST /api/restaurants                                                   *)
(***************************************************************************)
\* commission_rate = 0.10, in percent points
CommissionRate == 10

RestaurantCreate == [name : {"Cafe"}]

\* Restaurant(**restaurant.dict(), ..., commission_rate=0.10).  The
\* coordinates geocode_address returns (or None, None) are stored and never
\* read; they are left out.
NewRestaurant(restaurant, id) ==
    [ id |-> id,
      name |-> restaurant.name,
      is_active |-> TRUE,
      commission_rate |-> CommissionRate ]

\* the request arrives; geocode_address is called before the first await
CreateRestaurantCall(p, restaurant) ==
    /\ Idle(p)
    /\ CanDraw(1)
    /\ Await(p, "restaurant_insert",
             [restaurant_obj |-> NewRestaurant(restaurant, nextId)])
    /\ nextId' = nextId + 1
    /\ UNCHANGED <<authVars, catalogVars, now>>

\* db.restaurants.insert_one, then the response
CreateRestaurantInsert(p) ==
    /\ pc[p] = "restaurant_insert"
    /\ restaurants' = restaurants \cup {loc[p].restaurant_obj}
    /\ Finish(p, Ok("create_restaurant", loc[p].restaurant_obj))
    /\ UNCHANGED <<authVars, food_items, orders, now, nextId>>

(***************************************************************************)
(* POST /api/food-items                                                    *)
(***************************************************************************)
\* int(x) for the quotient x = a / b: truncation towards zero
IntQuot(a, b) ==
    IF (a >= 0) = (b > 0) THEN (IF a >= 0 THEN a ELSE -a) \div (IF b > 0 THEN b ELSE -b)
    ELSE -((IF a >= 0 THEN a ELSE -a) \div (IF b > 0 THEN b ELSE -b))

\* int(((original_price - discounted_price) / original_price) * 100)
DiscountPercentage(original_price, discounted_price) ==
    IntQuot((original_price - discounted_price) * 100, original_price)

FoodItemCreate ==
    { [restaurant_id |-> 1, original_price |-> 25, discounted_price |-> 15,
       expires_at |-> 2],
      [restaurant_id |-> 1, original_price |-> 10, discounted_price |-> 0,
       expires_at |-> 2],
      [restaurant_id |-> 2, original_price |-> 15, discounted_price |-> 25,
       expires_at |-> 0],
      [restaurant_id |-> 1, original_price |-> 0, discounted_price |-> 0,
       expires_at |-> 2] }

\* FoodItem(**food_item.dict(), discount_percentage=discount_percentage)
NewFoodItem(food_item, discount_percentage, id) ==
    [ id |-> id,
      restaurant_id |-> food_item.restaurant_id,
      original_price |-> food_item.original_price,
      discounted_price |-> food_item.discounted_price,
      discount_percentage |-> discount_percentage,
      expires_at |-> food_item.expires_at,
      is_available |-> TRUE ]

\* the request arrives and the discount is computed: a division by zero
\* when original_price is 0
CreateFoodItemCall(p, food_item) ==
    /\ Idle(p)
    /\ CanDraw(1)
    /\ IF food_item.original_price = 0
       THEN /\ Finish(p, ServerError("create_food_item", "ZeroDivisionError"))
            /\ UNCHANGED nextId
       ELSE /\ Await(p, "food_insert",
                     [food_item_obj |->
                         NewFoodItem(food_item,
                                     DiscountPercentage(food_item.original_price,
                                                        food_item.discounted_price),
                                     <<nextId, 0>>)])
            /\ nextId' = nextId + 1
    /\ UNCHANGED <<authVars, catalogVars, now>>

\* db.food_items.insert_one, then the response
CreateFoodItemInsert(p) ==
    /\ pc[p] = "food_insert"
    /\ food_items' = food_items \cup {loc[p].food_item_obj}
    /\ Finish(p, Ok("create_food_item", loc[p].food_item_obj))
    /\ UNCHANGED <<authVars, restaurants, orders, now, nextId>>

(***************************************************************************)
(* POST /api/orders                                                        *)
(***************************************************************************)
\* calculate_commission returning what is left to the restaurant instead of
\* what the platform keeps
calculate_commission_payout(total_amount, commission_rate) ==
    total_amount * (100 - commission_rate)

\* calculate_commission(total_amount, commission_rate)
calculate_commission(total_amount, commission_rate) ==
    total_amount * commission_rate

\* an Order born completed
OrderStatusCompleted == "completed"

\* Order.status = "pending"
OrderStatusDefault == "pending"

OrderCreate ==
    { [restaurant_id |-> 0, total_amount |-> 20],
      [restaurant_id |-> 1, total_amount |-> 20],
      [restaurant_id |-> 2, total_amount |-> 35] }

\* Order(**order.dict(), qr_code=..., commission_amount=..., commission_rate=...)
NewOrder(order, commission_amount, commission_rate, id) ==
    [ id |-> id,
      restaurant_id |-> order.restaurant_id,
      total_amount |-> order.total_amount,
      commission_amount |-> commission_amount,
      commission_rate |-> commission_rate,
      status |-> OrderStatusDefault ]

\* the request arrives
CreateOrderCall(p, order) ==
    /\ Idle(p)
    /\ CanDraw(1)
    /\ Await(p, "order_find", [order |-> order])
    /\ UNCHANGED <<authVars, catalogVars, now, nextId>>

\* CreateOrderFind without its `if not restaurant: raise`, the rate falling
\* back on restaurant.get's default
CreateOrderFindNoRaise(p) ==
    /\ pc[p] = "order_find"
    /\ Await(p, "order_insert",
             [order |-> loc[p].order,
              restaurant |-> NoLoc,
              order_obj |-> NewOrder(loc[p].order,
                                     calculate_commission(loc[p].order.total_amount,
                                                          CommissionRate),
                                     CommissionRate, nextId)])
    /\ nextId' = nextId + 1
    /\ UNCHANGED <<authVars, catalogVars, now>>

\* the lookup of the restaurant, the raise that follows a miss, and the
\* construction of order_obj
CreateOrderFind(p) ==
    /\ pc[p] = "order_find"
    /\ LET order == loc[p].order
       IN  IF find_one(restaurants, "id", order.restaurant_id) = {}
           THEN /\ Finish(p, HTTPException("create_order", 404,
                                           "Restaurant not found"))
                /\ UNCHANGED nextId
           ELSE \E restaurant \in find_one(restaurants, "id", order.restaurant_id) :
                   LET commission_rate == restaurant.commission_rate
                       commission_amount ==
                           calculate_commission(order.total_amount, commission_rate)
                   IN  /\ Await(p, "order_insert",
                                [order |-> order,
                                 restaurant |-> restaurant,
                                 order_obj |-> NewOrder(order, commission_amount,
                                                        commission_rate, nextId)])
                       /\ nextId' = nextId + 1
    /\ UNCHANGED <<authVars, catalogVars, now>>

\* db.orders.insert_one, then the response
CreateOrderInsert(p) ==
    /\ pc[p] = "order_insert"
    /\ orders' = orders \cup {loc[p].order_obj}
    /\ Finish(p, Ok("create_order", loc[p].order_obj))
    /\ UNCHANGED <<authVars, restaurants, food_items, now, nextId>>

(***************************************************************************)
(* GET /api/analytics/food-waste-saved                                     *)
(***************************************************************************)
\* 0.5 kg per order, in tenths of a kilogram
WastePerOrder == 5

\* collection.count_documents({field: value})
count_documents(coll, field, value) ==
    Cardinality({ d \in coll : d[field] = value })

\* the request arrives
GetFoodWasteSavedCall(p) ==
    /\ Idle(p)
    /\ Await(p, "waste_count", NoLoc)
    /\ UNCHANGED <<authVars, catalogVars, now, nextId>>

\* db.orders.count_documents, then the response
GetFoodWasteSaved(p) ==
    /\ pc[p] = "waste_count"
    /\ LET total_orders == count_documents(orders, "status", "completed")
       IN  Finish(p, Ok("get_food_waste_saved",
                        [total_waste_saved_kg |-> total_orders * WastePerOrder,
                         total_orders |-> total_orders]))
    /\ UNCHANGED <<authVars, catalogVars, now, nextId>>

(***************************************************************************)
(* POST /api/demo/populate                                                 *)
(***************************************************************************)
\* demo_restaurants: one restaurant, with a fresh id
DemoRestaurants(id) ==
    { [ id |-> id,
        name |-> "Luigi's Italian Kitchen",
        is_active |-> TRUE,
        commission_rate |-> CommissionRate ] }

\* demo_food_items: for each demo restaurant, i in range(3); the uuid4 of
\* item i is the token <<restaurant id, i + 1>>
DemoFoodItems(demo_restaurants, t) ==
    { [ id |-> <<restaurant.id, i + 1>>,
        restaurant_id |-> restaurant.id,
        original_price |-> 25 + (i * 5),
        discounted_price |-> 15 + (i * 3),
        discount_percentage |-> 40,
        expires_at |-> t + 2 + i,
        is_available |-> TRUE ] : restaurant \in demo_restaurants, i \in 0 .. 2 }

\* the request arrives
PopulateCall(p) ==
    /\ Idle(p)
    /\ CanDraw(1)
    /\ Await(p, "pop_delete_restaurants", NoLoc)
    /\ UNCHANGED <<authVars, catalogVars, now, nextId>>

\* db.restaurants.delete_many({})
PopulateDeleteRestaurants(p) ==
    /\ pc[p] = "pop_delete_restaurants"
    /\ restaurants' = {}
    /\ Await(p, "pop_delete_food", NoLoc)
    /\ UNCHANGED <<authVars, food_items, orders, now, nextId>>

\* db.food_items.delete_many({}), then demo_restaurants is built
PopulateDeleteFood(p) ==
    /\ pc[p] = "pop_delete_food"
    /\ food_items' = {}
    /\ Await(p, "pop_insert_restaurants",
             [demo_restaurants |-> DemoRestaurants(nextId)])
    /\ nextId' = nextId + 1
    /\ UNCHANGED <<authVars, restaurants, orders, now>>

\* db.restaurants.insert_many, then demo_food_items is built
PopulateInsertRestaurants(p) ==
    /\ pc[p] = "pop_insert_restaurants"
    /\ restaurants' = restaurants \cup loc[p].demo_restaurants
    /\ Await(p, "pop_insert_food",
             [demo_restaurants |-> loc[p].demo_restaurants,
              demo_food_items |-> DemoFoodItems(loc[p].demo_restaurants, now)])
    /\ UNCHANGED <<authVars, food_items, orders, now, nextId>>

\* db.food_items.insert_many, then the response
PopulateInsertFood(p) ==
    /\ pc[p] = "pop_insert_food"
    /\ food_items' = food_items \cup loc[p].demo_food_items
    /\ Finish(p, Ok("populate_demo_data",
                    [message |-> "Demo data populated successfully"]))
    /\ UNCHANGED <<authVars, restaurants, orders, now, nextId>>

(***************************************************************************)
(* The environment.                                                        *)
(***************************************************************************)
\* time passes
Tick ==
    /\ \E t \in Instants : t > now /\ now' = t
    /\ resp' = NoResp
    /\ UNCHANGED <<authVars, catalogVars, pc, loc, nextId>>

\* the store operation a handler awaits raises (the store is unreachable):
\* no handler catches it, the request ends with 500 and nothing is undone
StorageError(p) ==
    /\ pc[p] # "idle"
    /\ Finish(p, ServerError(HandlerOf(pc[p]), "PyMongoError"))
    /\ UNCHANGED <<authVars, catalogVars, now, nextId>>

Init ==
    /\ users = {}
    /\ subscriptions = {}
    /\ restaurants = {}
    /\ food_items = {}
    /\ orders = {}
    /\ now = 0
    /\ pc = [p \in Procs |-> "idle"]
    /\ loc = [p \in Procs |-> NoLoc]
    /\ resp = NoResp
    /\ nextId = 1

AuthNext ==
    \/ \E p \in Procs : \E user \in UserCreate : RegisterCall(p, user)
    \/ \E p \in Procs : RegisterFindEmail(p)
    \/ \E p \in Procs : RegisterFindMobile(p)
    \/ \E p \in Procs : RegisterInsertUser(p)
    \/ \E p \in Procs : RegisterInsertSubscription(p)
    \/ \E p \in Procs : \E email \in Emails : LoginCall(p, email)
    \/ \E p \in Procs : LoginFind(p)
    \/ \E p \in Procs : LoginUpdate(p)
    \/ \E p \in Procs : StorageError(p)
    \/ Tick

\* the user and subscription handlers, running concurrently
SpecAuth == Init /\ [][AuthNext]_vars

CatalogNext ==
    \/ \E p \in Procs : \E restaurant \in RestaurantCreate :
          CreateRestaurantCall(p, restaurant)
    \/ \E p \in Procs : CreateRestaurantInsert(p)
    \/ \E p \in Procs : \E food_item \in FoodItemCreate :
          CreateFoodItemCall(p, food_item)
    \/ \E p \in Procs : CreateFoodItemInsert(p)
    \/ \E p \in Procs : \E order \in OrderCreate : CreateOrderCall(p, order)
    \/ \E p \in Procs : CreateOrderFind(p)
    \/ \E p \in Procs : CreateOrderInsert(p)
    \/ \E p \in Procs : GetFoodWasteSavedCall(p)
    \/ \E p \in Procs : GetFoodWasteSaved(p)
    \/ \E p \in Procs : PopulateCall(p)
    \/ \E p \in Procs : PopulateDeleteRestaurants(p)
    \/ \E p \in Procs : PopulateDeleteFood(p)
    \/ \E p \in Procs : PopulateInsertRestaurants(p)
    \/ \E p \in Procs : PopulateInsertFood(p)
    \/ \E p \in Procs : StorageError(p)
    \/ Tick

\* the restaurant, food item, order and demo handlers, running concurrently
SpecCatalog == Init /\ [][CatalogNext]_vars

OrdersNext ==
    \/ \E p \in Procs : \E restaurant \in RestaurantCreate :
          CreateRestaurantCall(p, restaurant)
    \/ \E p \in Procs : CreateRestaurantInsert(p)
    \/ \E p \in Procs : \E order \in OrderCreate : CreateOrderCall(p, order)
    \/ \E p \in Procs : CreateOrderFind(p)
    \/ \E p \in Procs : CreateOrderInsert(p)
    \/ \E p \in Procs : GetFoodWasteSavedCall(p)
    \/ \E p \in Procs : GetFoodWasteSaved(p)
    \/ \E p \in Procs : PopulateCall(p)
    \/ \E p \in Procs : PopulateDeleteRestaurants(p)
    \/ \E p \in Procs : PopulateDeleteFood(p)
    \/ \E p \in Procs : PopulateInsertRestaurants(p)
    \/ \E p \in Procs : PopulateInsertFood(p)
    \/ \E p \in Procs : StorageError(p)
    \/ Tick

\* the handlers that read or write restaurants and orders
SpecOrders == Init /\ [][OrdersNext]_vars

Next == AuthNext \/ CatalogNext

\* every handler
Spec == Init /\ [][Next]_vars
\* no request is in flight
AllIdle == \A p \in Procs : pc[p] = "idle"

AuthSeqNext ==
    \/ \E p \in Procs : \E user \in UserCreate : AllIdle /\ RegisterCall(p, user)
    \/ \E p \in Procs : RegisterFindEmail(p)
    \/ \E p \in Procs : RegisterFindMobile(p)
    \/ \E p \in Procs : RegisterInsertUser(p)
    \/ \E p \in Procs : RegisterInsertSubscription(p)
    \/ \E p \in Procs : \E email \in Emails : AllIdle /\ LoginCall(p, email)
    \/ \E p \in Procs : LoginFind(p)
    \/ \E p \in Procs : LoginUpdate(p)
    \/ \E p \in Procs : StorageError(p)
    \/ Tick

\* the user and subscription handlers, one request after the other
SpecAuthSeq == Init /\ [][AuthSeqNext]_vars

DemoNext ==
    \/ \E p \in Procs : PopulateCall(p)
    \/ \E p \in Procs : PopulateDeleteRestaurants(p)
    \/ \E p \in Procs : PopulateDeleteFood(p)
    \/ \E p \in Procs : PopulateInsertRestaurants(p)
    \/ \E p \in Procs : PopulateInsertFood(p)
    \/ \E p \in Procs : StorageError(p)
    \/ Tick

\* populate_demo_data alone, its runs interleaving
SpecDemo == Init /\ [][DemoNext]_vars

(***************************************************************************)
(* Properties.                                                             *)
(***************************************************************************)
\* the awaited store operation raised
StorageFailed(r) == r.code = 500 /\ r.exc = "PyMongoError"

\* the step ends the request in slot p: resp' is its response
Responds(p) == pc[p] # "idle" /\ pc'[p] = "idle"

\* the step is one of the handler in slot p, suspended at `at`
StepsFrom(p, at) == pc[p] = at /\ pc'[p] # at

EmailTaken(user) == \E u \in users : u.email = user.email
MobileTaken(user) == \E u \in users : u.mobile_number = user.mobile_number

UniqueEmails == \A u, v \in users : u.email = v.email => u = v
UniqueMobiles == \A u, v \in users : u.mobile_number = v.mobile_number => u = v

Conflict(r) == r.handler = "register_user" /\ r.code = 400

\* C1: when register_user runs after every earlier request has completed,
\* with an email or a mobile number that a stored user already has, its
\* lookup ends the request with the conflict error (HTTP 400) and leaves
\* users and subscriptions as they are; so no two stored users share an
\* email or a mobile number. (A lookup that itself raises ends the request
\* with 500, again with nothing written.)
C1_DuplicateRejected ==
    /\ [](UniqueEmails /\ UniqueMobiles)
    /\ [][\A p \in Procs :
            /\ (StepsFrom(p, "reg_find_email") /\ EmailTaken(loc[p].user))
                  => /\ pc'[p] = "idle"
                     /\ Conflict(resp') \/ StorageFailed(resp')
                     /\ UNCHANGED authVars
            /\ (StepsFrom(p, "reg_find_mobile")
                  /\ (EmailTaken(loc[p].user) \/ MobileTaken(loc[p].user)))
                  => /\ pc'[p] = "idle"
                     /\ Conflict(resp') \/ StorageFailed(resp')
                     /\ UNCHANGED authVars]_vars

\* a second registration was refused for its mobile number
C1_Witness ==
    /\ Conflict(resp)
    /\ resp.detail = "User with this mobile number already exists"
    /\ Cardinality(users) = 1

\* C2: in every reachable state, under any interleaving of concurrent
\* register_user requests, no two stored users have the same email and no
\* two have the same mobile_number.
C2_GloballyUnique ==
    \A u, v \in users :
        (u.email = v.email \/ u.mobile_number = v.mobile_number) => u = v

\* C3: when create_order looks up order.restaurant_id and no stored
\* restaurant has that id, the request ends with not-found (HTTP 404) and no
\* collection is changed. (A lookup that itself raises ends the request with
\* 500, again with nothing written.)
C3_MissingRestaurant ==
    [][\A p \in Procs :
          (StepsFrom(p, "order_find")
             /\ \A r \in restaurants : r.id # loc[p].order.restaurant_id)
          => /\ pc'[p] = "idle"
             /\ \/ resp'.handler = "create_order" /\ resp'.code = 404
                \/ StorageFailed(resp')
             /\ UNCHANGED <<authVars, catalogVars>>]_vars

\* an order for an unknown restaurant was refused while restaurants exist
C3_Witness ==
    /\ resp.handler = "create_order"
    /\ resp.code = 404
    /\ restaurants # {}
    /\ orders = {}

\* C4: every stored FoodItem has discounted_price <= original_price and a
\* discount_percentage in [0, 100] (a create_food_item request with
\* discounted_price > original_price being refused with nothing stored).
C4_DiscountInvariant ==
    \A f \in food_items :
        /\ f.discounted_price <= f.original_price
        /\ f.discount_percentage \in 0 .. 100

\* C5: a customer registered at time T is stored with status trial and
\* trial_end_date = T + 30 days (720 hours), and is_trial_period_active is
\* true for it at every time before trial_end_date and false from then on; a
\* restaurant user is stored with no trial_end_date and status active, and
\* is_trial_period_active is false for it.
C5_TrialPeriod ==
    /\ [](\A u \in users :
            IF u.user_type = "customer"
            THEN /\ u.trial_end_date = u.created_at + 720
                 /\ u.subscription_status \in {"trial", "expired"}
                 /\ is_trial_period_active(u, now) <=> (now < u.created_at + 720)
            ELSE /\ u.trial_end_date = None
                 /\ u.subscription_status = "active"
                 /\ ~ is_trial_period_active(u, now))
    /\ [][\A p \in Procs :
            /\ (pc[p] = "reg_find_mobile" /\ pc'[p] = "reg_insert_user")
                  => loc'[p].user_obj.created_at = now
            /\ (StepsFrom(p, "reg_insert_user") /\ ~ StorageFailed(resp'))
                  => /\ users' = users \cup {loc[p].user_obj}
                     /\ \A u \in users : u.id # loc[p].user_obj.id
                     /\ loc[p].user_obj.user_type = "customer"
                           => loc[p].user_obj.subscription_status = "trial"]_vars

\* the clock stands at the end of a stored customer's trial
C5_Witness ==
    \E u \in users :
        /\ u.user_type = "customer"
        /\ now = u.trial_end_date
        /\ ~ is_trial_period_active(u, now)
        /\ \E v \in users : v.user_type = "restaurant"

\* a stored customer still marked trial whose trial has ended by time t
TrialOver(u, t) ==
    /\ u.user_type = "customer"
    /\ u.subscription_status = "trial"
    /\ u.trial_end_date # None
    /\ u.trial_end_date <= t

\* C6: a login with the email of a stored customer whose status is trial and
\* whose trial_end_date is not after the current time sets that user's stored
\* status to expired and returns the user with status expired; every other
\* login changes no stored user; a stored user's status changes only from
\* trial to expired.
C6_LoginExpiry ==
    [][\A p \in Procs :
          \* the login answers straight from the lookup only when no stored
          \* user with that email is a customer whose trial is over
          /\ (StepsFrom(p, "login_find") /\ Responds(p)
                /\ ~ StorageFailed(resp'))
                => /\ \A u \in users : u.email = loc[p].email => ~ TrialOver(u, now)
                   /\ UNCHANGED authVars
          \* otherwise it goes on to the update, which marks the user expired
          /\ (StepsFrom(p, "login_update") /\ ~ StorageFailed(resp'))
                => /\ resp'.body.user.subscription_status = "expired"
                   /\ \A u \in users' :
                         u.id = loc[p].user_obj.id => u.subscription_status = "expired"
                   /\ \A u \in users' :
                         u.id # loc[p].user_obj.id => u \in users
          \* the only change of a status is trial -> expired
          /\ \A u \in users : \E v \in users' :
                /\ v.id = u.id
                /\ \/ v.subscription_status = u.subscription_status
                   \/ u.subscription_status = "trial"
                         /\ v.subscription_status = "expired"]_vars

\* C7: a stored order has the commission_rate of the restaurant create_order
\* looked up and commission_amount = total_amount * commission_rate, and no
\* later operation changes or removes it, deleting the restaurant included.
C7_CommissionSnapshot ==
    /\ [](\A o \in orders :
            o.commission_amount = o.total_amount * o.commission_rate)
    /\ [][\A p \in Procs :
            /\ (pc[p] = "order_find" /\ pc'[p] = "order_insert")
                  => /\ loc'[p].restaurant \in restaurants
                     /\ loc'[p].restaurant.id = loc[p].order.restaurant_id
                     /\ loc'[p].order_obj.commission_rate
                           = loc'[p].restaurant.commission_rate
                     /\ loc'[p].order_obj.total_amount = loc[p].order.total_amount
            /\ (StepsFrom(p, "order_insert") /\ ~ StorageFailed(resp'))
                  => /\ orders' = orders \cup {loc[p].order_obj}
                     /\ loc[p].order_obj.commission_rate
                           = loc[p].restaurant.commission_rate]_vars
    /\ [][\A o \in orders : o \in orders']_vars

\* an order outlives the restaurant it was placed with
C7_Witness ==
    \E o \in orders :
        /\ \A r \in restaurants : r.id # o.restaurant_id
        /\ restaurants # {}
        /\ o.commission_amount = 200

\* the seed restaurants, and the food items that go with the stored ones
IsSeedRestaurant(r) ==
    /\ r.name = "Luigi's Italian Kitchen"
    /\ r.commission_rate = 10
    /\ r.is_active

\* C8: when populate_demo_data completes, whatever ran before or alongside
\* it, restaurants holds exactly the one seed restaurant and food_items
\* exactly 3 available items, each referencing a stored restaurant. (The
\* claim's further conjunct, each expires_at in the future, is not needed to
\* refute it and is left out.)
C8_PopulateReseeds ==
    (resp.handler = "populate_demo_data" /\ resp.code = 200)
    => /\ Cardinality(restaurants) = 1
       /\ \A r \in restaurants : IsSeedRestaurant(r)
       /\ Cardinality(food_items) = 3 * Cardinality(restaurants)
       /\ \A f \in food_items :
             /\ f.is_available
             /\ \E r \in restaurants : r.id = f.restaurant_id

\* C9: in every reachable state every stored customer has exactly one
\* Subscription with its id as user_id, with status trial and the user's
\* trial_end_date, and no stored restaurant user has a Subscription.
C9_OneSubscription ==
    \A u \in users :
        LET own == { sub \in subscriptions : sub.user_id = u.id }
        IN  IF u.user_type = "customer"
            THEN /\ Cardinality(own) = 1
                 /\ \A sub \in own :
                       /\ sub.status = "trial"
                       /\ sub.trial_end_date = u.trial_end_date
            ELSE own = {}

\* C10: get_food_waste_saved reports total_orders = N and 0.5 kg (5 tenths)
\* per order for the N stored orders with status completed, and changes no
\* collection; every stored order has status pending, so N is 0.
C10_FoodWaste ==
    /\ [](\A o \in orders : o.status = "pending")
    /\ []((resp.handler = "get_food_waste_saved" /\ resp.code = 200)
            => /\ resp.body.total_orders
                     = Cardinality({ o \in orders : o.status = "completed" })
               /\ resp.body.total_orders = 0
               /\ resp.body.total_waste_saved_kg = 5 * resp.body.total_orders)
    /\ [][\A p \in Procs :
            StepsFrom(p, "waste_count") => UNCHANGED <<authVars, catalogVars>>]_vars

\* the analytics answered while orders are stored
C10_Witness ==
    /\ resp.handler = "get_food_waste_saved"
    /\ resp.code = 200
    /\ orders # {}
=============================================================================
